---- MODULE Spec2Model ----
(***************************************************************************)
(* Model of video_to_gif_gui.py: the time helpers parse_time and           *)
(* format_time_seconds over IEEE-754 binary64 values, and the export       *)
(* machinery of VideoToGifGUI (on_export on the UI thread, _export_worker  *)
(* threads, the non-blocking lock, root.after marshalling, work dirs).     *)
(* Spec is the whole program (choose file, choose output, preview, export, *)
(* workers); FairSpec adds the fairness of threads and processes;          *)
(* RangeSpec is the program with valid options and other Start entries;    *)
(* TimeSpec and ParseSpec apply the time helpers to bounded sets of texts. *)
(*                                                                         *)
(* A text is a sequence of one-character strings.  A Python float is a     *)
(* record [k, neg, int, frac]: k is "num", "inf" or "nan"; for "num" the   *)
(* magnitude is int + 0.frac in binary, frac a sequence of bits without    *)
(* trailing zeros, so that equal values have equal records.  Every         *)
(* arithmetic result is rounded to 53 significant bits, ties to even.      *)
(* Zero has one record: -0.0 is not told apart from 0.0 (no text the model *)
(* formats is a negative zero).  Exponent range is not modelled: the       *)
(* values here are far from overflow and from subnormals.                  *)
(***************************************************************************)
EXTENDS Integers, Sequences, FiniteSets, TLC

\* ------------------------------------------------------------------------
\* Bounds of the model
\* ------------------------------------------------------------------------
\* user operations (file choices and clicks) in one run of the program
MaxOps == 3
\* largest hour field of the time texts given to the time helpers
MaxHour == 1
\* most colon-separated fields of the texts given to parse_time
MaxFields == 4

\* Precision of a Python float (binary64 significand, hidden bit included)
MantBits == 53

None == [k |-> "none", neg |-> FALSE, int |-> 0, frac |-> <<>>]
NaN == [k |-> "nan", neg |-> FALSE, int |-> 0, frac |-> <<>>]
Inf(neg) == [k |-> "inf", neg |-> neg, int |-> 0, frac |-> <<>>]

\* ------------------------------------------------------------------------
\* binary64 arithmetic on magnitudes  int + 0.frac
\* ------------------------------------------------------------------------
RECURSIVE BitLen(_)
BitLen(n) == IF n = 0 THEN 0 ELSE 1 + BitLen(n \div 2)

RECURSIVE Pow2(_)
Pow2(n) == IF n = 0 THEN 1 ELSE 2 * Pow2(n - 1)

MaxOf(S) == CHOOSE i \in S : \A j \in S : j <= i

MinOf(S) == CHOOSE i \in S : \A j \in S : i <= j

Ones(b) == {i \in 1..Len(b) : b[i] = 1}

\* the bits without their trailing zeros
StripZeros(b) == IF Ones(b) = {} THEN <<>> ELSE SubSeq(b, 1, MaxOf(Ones(b)))

\* zero bits before the first one bit
LeadZeros(b) == IF Ones(b) = {} THEN Len(b) ELSE MinOf(Ones(b)) - 1

Zeros(n) == [i \in 1..n |-> 0]

PadTo(b, n) == IF Len(b) >= n THEN b ELSE b \o Zeros(n - Len(b))

\* the sequences are cut in two halves, the low half (the later bits) first
HiHalf(b) == SubSeq(b, 1, Len(b) \div 2)

LoHalf(b) == SubSeq(b, Len(b) \div 2 + 1, Len(b))

\* b + 1 in the last place; carry is the overflow into the integer part
IncBits(b) ==
  LET zs == {i \in 1..Len(b) : b[i] = 0} IN
  IF zs = {} THEN [bits |-> Zeros(Len(b)), carry |-> 1]
  ELSE [bits |-> SubSeq(b, 1, MaxOf(zs) - 1) \o <<1>> \o Zeros(Len(b) - MaxOf(zs)),
        carry |-> 0]

\* b * c + cin, from the last place upwards
RECURSIVE MulBits(_, _, _)
MulBits(b, c, cin) ==
  IF b = <<>> THEN [bits |-> <<>>, carry |-> cin]
  ELSE IF Len(b) = 1
       THEN [bits |-> <<(b[1] * c + cin) % 2>>, carry |-> (b[1] * c + cin) \div 2]
  ELSE LET lo == MulBits(LoHalf(b), c, cin)
       IN IF lo.carry < 0 THEN lo   \* the low half is computed first
          ELSE LET hi == MulBits(HiHalf(b), c, lo.carry)
               IN [bits |-> hi.bits \o lo.bits, carry |-> hi.carry]

\* a + b + cin for two fractions of the same length
RECURSIVE AddBits(_, _, _)
AddBits(a, b, cin) ==
  IF a = <<>> THEN [bits |-> <<>>, carry |-> cin]
  ELSE IF Len(a) = 1
       THEN [bits |-> <<(a[1] + b[1] + cin) % 2>>, carry |-> (a[1] + b[1] + cin) \div 2]
  ELSE LET lo == AddBits(LoHalf(a), LoHalf(b), cin)
       IN IF lo.carry < 0 THEN lo   \* the low half is computed first
          ELSE LET hi == AddBits(HiHalf(a), HiHalf(b), lo.carry)
               IN [bits |-> hi.bits \o lo.bits, carry |-> hi.carry]

\* a - b - bin for two fractions of the same length; carry is the borrow out
RECURSIVE SubBits(_, _, _)
SubBits(a, b, bin) ==
  IF a = <<>> THEN [bits |-> <<>>, carry |-> bin]
  ELSE IF Len(a) = 1
       THEN [bits |-> <<(a[1] - b[1] - bin) % 2>>,
             carry |-> IF a[1] - b[1] - bin < 0 THEN 1 ELSE 0]
  ELSE LET lo == SubBits(LoHalf(a), LoHalf(b), bin)
       IN IF lo.carry < 0 THEN lo   \* the low half is computed first
          ELSE LET hi == SubBits(HiHalf(a), HiHalf(b), lo.carry)
               IN [bits |-> hi.bits \o lo.bits, carry |-> hi.carry]

\* lexicographic a < b for two fractions of the same length
BitsLess(a, b) ==
  LET ds == {i \in 1..Len(a) : a[i] # b[i]} IN
  ds # {} /\ a[MinOf(ds)] < b[MinOf(ds)]

\* number of fraction bits a magnitude with integer part i keeps
KeepBits(i, frac) ==
  IF i > 0 THEN MantBits - BitLen(i) ELSE LeadZeros(frac) + MantBits

\* round-to-nearest-even of the magnitude i + 0.frac (+ something below the
\* last bit of frac when sticky) to MantBits significant bits
RoundMag(i, frac, sticky) ==
  LET keep == KeepBits(i, frac) IN
  IF Len(frac) <= keep THEN [int |-> i, frac |-> StripZeros(frac)]
  ELSE LET kept == SubSeq(frac, 1, keep)
           guard == frac[keep + 1]
           rest == sticky \/ \E j \in (keep + 2)..Len(frac) : frac[j] = 1
           lsb == IF keep = 0 THEN i % 2 ELSE kept[keep]
           up == guard = 1 /\ (rest \/ lsb = 1)
           r == IncBits(kept)
       IN IF up THEN [int |-> i + r.carry, frac |-> StripZeros(r.bits)]
          ELSE [int |-> i, frac |-> StripZeros(kept)]

Num(neg, m) ==
  [k |-> "num", neg |-> (neg /\ (m.int # 0 \/ m.frac # <<>>)),
   int |-> m.int, frac |-> m.frac]

FromInt(n) ==
  IF n < 0 THEN Num(TRUE, [int |-> -n, frac |-> <<>>])
  ELSE Num(FALSE, [int |-> n, frac |-> <<>>])

MagLess(x, y) ==
  \/ x.int < y.int
  \/ /\ x.int = y.int
     /\ LET n == IF Len(x.frac) > Len(y.frac) THEN Len(x.frac) ELSE Len(y.frac)
        IN BitsLess(PadTo(x.frac, n), PadTo(y.frac, n))

MagAdd(x, y) ==
  LET n == IF Len(x.frac) > Len(y.frac) THEN Len(x.frac) ELSE Len(y.frac)
      r == AddBits(PadTo(x.frac, n), PadTo(y.frac, n), 0)
  IN RoundMag(x.int + y.int + r.carry, r.bits, FALSE)

\* x - y for magnitudes with y <= x
MagSub(x, y) ==
  LET n == IF Len(x.frac) > Len(y.frac) THEN Len(x.frac) ELSE Len(y.frac)
      r == SubBits(PadTo(x.frac, n), PadTo(y.frac, n), 0)
  IN RoundMag(x.int - y.int - r.carry, r.bits, FALSE)

\* float + float
FAdd(x, y) ==
  IF x.k = "nan" \/ y.k = "nan" THEN NaN
  ELSE IF x.k = "inf" /\ y.k = "inf"
       THEN (IF x.neg = y.neg THEN x ELSE NaN)
  ELSE IF x.k = "inf" THEN x
  ELSE IF y.k = "inf" THEN y
  ELSE IF x.neg = y.neg THEN Num(x.neg, MagAdd(x, y))
  ELSE IF MagLess(x, y) THEN Num(y.neg, MagSub(y, x))
  ELSE Num(x.neg, MagSub(x, y))

FNeg(x) == IF x.k = "num" THEN Num(~x.neg, x)
           ELSE IF x.k = "inf" THEN Inf(~x.neg) ELSE x

\* float - float
FSub(x, y) == FAdd(x, FNeg(y))

\* float * c for a float c that is a positive integer
FMulInt(x, c) ==
  IF x.k # "num" THEN x
  ELSE LET r == MulBits(x.frac, c, 0)
       IN Num(x.neg, RoundMag(x.int * c + r.carry, r.bits, FALSE))

\* x <= y on floats (False as soon as one side is nan)
FLe(x, y) ==
  IF x.k = "nan" \/ y.k = "nan" THEN FALSE
  ELSE IF x.k = "inf" THEN (x.neg \/ (y.k = "inf" /\ ~y.neg))
  ELSE IF y.k = "inf" THEN ~y.neg
  ELSE IF x.neg # y.neg THEN x.neg
  ELSE IF x.neg THEN ~MagLess(x, y)
  ELSE ~MagLess(y, x)

\* math.floor of a finite float, a Python int
Floor(x) ==
  IF ~x.neg THEN x.int
  ELSE IF x.frac = <<>> THEN -x.int ELSE -(x.int + 1)

\* the first n bits of the binary expansion of r/d (0 <= r < d), and the
\* remainder left below them
RECURSIVE DivBits(_, _, _)
DivBits(r, d, n) ==
  IF n = 0 THEN [bits |-> <<>>, rem |-> r]
  ELSE IF n = 1
       THEN [bits |-> <<IF 2 * r >= d THEN 1 ELSE 0>>,
             rem |-> IF 2 * r >= d THEN 2 * r - d ELSE 2 * r]
  ELSE LET hi == DivBits(r, d, n \div 2)
           lo == DivBits(hi.rem, d, n - n \div 2)
       IN [bits |-> hi.bits \o lo.bits, rem |-> lo.rem]

\* zero bits before the first one bit of r/d (0 < r < d)
DivLeadZeros(r, d) ==
  MinOf({z \in 0..29 : Pow2(z + 1) >= (d + r - 1) \div r})

\* the float nearest to i + r/d
FromRatio(i, r, d) ==
  IF r = 0 THEN [int |-> i, frac |-> <<>>]
  ELSE LET n == (IF i > 0 THEN MantBits - BitLen(i)
                 ELSE DivLeadZeros(r, d) + MantBits) + 1
           q == DivBits(r, d, n)
       IN RoundMag(i, q.bits, q.rem # 0)

\* ------------------------------------------------------------------------
\* Texts: str.strip, str.split, float(str), int formatting
\* ------------------------------------------------------------------------
DigitChars == {"0", "1", "2", "3", "4", "5", "6", "7", "8", "9"}

DigitVal(c) ==
  CASE c = "0" -> 0 [] c = "1" -> 1 [] c = "2" -> 2 [] c = "3" -> 3
    [] c = "4" -> 4 [] c = "5" -> 5 [] c = "6" -> 6 [] c = "7" -> 7
    [] c = "8" -> 8 [] c = "9" -> 9

DigitChar(d) == <<"0", "1", "2", "3", "4", "5", "6", "7", "8", "9">>[d + 1]

\* the Python object None where a text is expected
PyNone == <<"None">>

RECURSIVE LStrip(_)
LStrip(t) == IF t # <<>> /\ t[1] = " " THEN LStrip(Tail(t)) ELSE t

RECURSIVE RStrip(_)
RStrip(t) ==
  IF t # <<>> /\ t[Len(t)] = " " THEN RStrip(SubSeq(t, 1, Len(t) - 1)) ELSE t

Strip(t) == RStrip(LStrip(t))

\* t.split(sep): the pieces between the separators, empty pieces included
RECURSIVE SplitFrom(_, _, _)
SplitFrom(t, sep, cur) ==
  IF t = <<>> THEN <<cur>>
  ELSE IF t[1] = sep THEN <<cur>> \o SplitFrom(Tail(t), sep, <<>>)
  ELSE SplitFrom(Tail(t), sep, Append(cur, t[1]))

Split(t, sep) == SplitFrom(t, sep, <<>>)

RECURSIVE DecVal(_)
DecVal(ds) ==
  IF ds = <<>> THEN 0
  ELSE 10 * DecVal(SubSeq(ds, 1, Len(ds) - 1)) + DigitVal(ds[Len(ds)])

RECURSIVE Pow10(_)
Pow10(n) == IF n = 0 THEN 1 ELSE 10 * Pow10(n - 1)

RECURSIVE DecText(_)
DecText(n) ==
  IF n < 10 THEN <<DigitChar(n)>> ELSE DecText(n \div 10) \o <<DigitChar(n % 10)>>

\* format(n, "0{w}d"): sign-aware zero padding to at least w characters
ZeroPad(n, w) ==
  LET d == DecText(IF n < 0 THEN -n ELSE n)
      room == IF n < 0 THEN w - 1 ELSE w
      body == IF Len(d) >= room THEN d
              ELSE [i \in 1..(room - Len(d)) |-> "0"] \o d
  IN IF n < 0 THEN <<"-">> \o body ELSE body

ValueError == [k |-> "ValueError", neg |-> FALSE, int |-> 0, frac |-> <<>>]

\* float(text) for texts of spaces, sign, digits, "." and the words nan and
\* inf; anything else of the modelled alphabet raises ValueError
PyFloat(tok) ==
  LET s == Strip(tok)
      signed == s # <<>> /\ s[1] \in {"+", "-"}
      neg == s # <<>> /\ s[1] = "-"
      body == IF signed THEN Tail(s) ELSE s
      dots == {i \in 1..Len(body) : body[i] = "."}
      dot == IF dots = {} THEN Len(body) + 1 ELSE CHOOSE i \in dots : TRUE
      ip == SubSeq(body, 1, dot - 1)
      fp == SubSeq(body, dot + 1, Len(body))
  IN IF body = <<"n", "a", "n">> THEN NaN
     ELSE IF body = <<"i", "n", "f">> THEN Inf(neg)
     ELSE IF /\ Cardinality(dots) <= 1
             /\ Len(ip) + Len(fp) >= 1
             /\ \A i \in 1..Len(ip) : ip[i] \in DigitChars
             /\ \A i \in 1..Len(fp) : fp[i] \in DigitChars
          THEN Num(neg, FromRatio(DecVal(ip), DecVal(fp), Pow10(Len(fp))))
     ELSE ValueError

\* ------------------------------------------------------------------------
\* parse_time and format_time_seconds
\* ------------------------------------------------------------------------
\* the loop of parse_time over the reversed parts
RECURSIVE SumParts(_, _, _)
SumParts(parts, seconds, multiplier) ==
  IF parts = <<>> THEN seconds
  ELSE SumParts(Tail(parts), FAdd(seconds, FMulInt(parts[1], multiplier)),
                multiplier * 60)

\* variant of Reverse: the parts are summed in the order they were written
Reverse_kept(q) == q

Reverse(q) == [i \in 1..Len(q) |-> q[Len(q) + 1 - i]]

parse_time(t0) ==
  IF t0 = PyNone THEN None
  ELSE LET t == Strip(t0) IN
  IF t = <<>> THEN None
  ELSE IF PyFloat(t) # ValueError THEN PyFloat(t)
  ELSE LET texts == Split(t, ":")
           parts == [i \in 1..Len(texts) |-> PyFloat(texts[i])]
       IN IF \E i \in 1..Len(parts) : parts[i] = ValueError THEN None
          ELSE IF Len(parts) = 1 THEN parts[1]
          ELSE SumParts(Reverse(parts), FromInt(0), 1)

\* math.floor(s) raises ValueError for nan and OverflowError for infinities
format_raises(s) == s.k \in {"nan", "inf"}

format_time_seconds(s) ==
  IF s = None THEN <<"U", "n", "k", "n", "o", "w", "n">>
  ELSE LET ms == FMulInt(FSub(s, FromInt(Floor(s))), 1000).int
           total == Floor(s)
           sec == total % 60
           total2 == total \div 60
           minute == total2 % 60
           hour == total2 \div 60
       IN ZeroPad(hour, 2) \o <<":">> \o ZeroPad(minute, 2) \o <<":">>
          \o ZeroPad(sec, 2) \o <<".">> \o ZeroPad(ms, 3)

\* f"{x:.3f}" of a float: the exact value rounded half-even to 3 decimals
FormatF3(x) ==
  IF x.k = "nan" THEN <<"n", "a", "n">>
  ELSE IF x.k = "inf" THEN (IF x.neg THEN <<"-">> ELSE <<>>) \o <<"i", "n", "f">>
  ELSE LET r == MulBits(x.frac, 1000, 0)
           k0 == x.int * 1000 + r.carry
           f == StripZeros(r.bits)
           up == f # <<>> /\ f[1] = 1 /\ (Len(f) > 1 \/ k0 % 2 = 1)
           k1 == IF up THEN k0 + 1 ELSE k0
       IN (IF x.neg THEN <<"-">> ELSE <<>>)
          \o DecText(k1 \div 1000) \o <<".">> \o ZeroPad(k1 % 1000, 3)

\* ------------------------------------------------------------------------
\* The program state
\* ------------------------------------------------------------------------
VARIABLES
  ffmpeg_ok,    \* self.ffmpeg_ok, set once by __init__
  pil_ok,       \* PIL_AVAILABLE, set once when the module is imported
  input_path,   \* self.input_path, "" for None
  duration,     \* self.duration, a float or None
  end_var,      \* text of the End entry
  output_var,   \* text of the Output entry
  log_text,     \* the lines inserted in the log pane, each with the thread that inserted it
  box,          \* title of the message box the UI thread has open, "" if none
  cursor,       \* cursor of the root window
  afterq,       \* callbacks scheduled with root.after(0, ...) and not yet run
  lock,         \* self._lock: 0 when free, else the thread that holds it
  threads,      \* the export threads started so far, by thread id
  workdirs,     \* work directories that exist on disk
  running,      \* threads blocked in subprocess.run, i.e. external processes alive
  ui,           \* what the UI thread is doing: "idle" or blocked in a handler
  nops,         \* user operations so far
  t_in,         \* time helpers: the input text
  t_val,        \* time helpers: the parsed value
  t_out,        \* time helpers: the formatted text
  t_pc,         \* time helpers: "in", "parsed", "formatted", "bare"
  t_ref,        \* time helpers: the parsed value of the bare-seconds text
  t_bare        \* time helpers: the bare-seconds text of the duration of t_in

guivars == <<ffmpeg_ok, pil_ok, input_path, duration, end_var, output_var, log_text,
             box, cursor, afterq, lock, threads, workdirs, running, ui, nops>>

timevars == <<t_in, t_val, t_out, t_pc, t_ref, t_bare>>

vars == <<ffmpeg_ok, pil_ok, input_path, duration, end_var, output_var, log_text,
          box, cursor, afterq, lock, threads, workdirs, running, ui, nops,
          t_in, t_val, t_out, t_pc, t_ref, t_bare>>

\* the UI (main) thread; export threads are numbered from 1
UIThread == 0

Text(str) ==
  CASE str = "" -> <<>>
    [] str = "0" -> <<"0">>
    [] str = "99" -> <<"9", "9">>
    [] str = "10" -> <<"1", "0">>
    [] str = "61" -> <<"6", "1">>
    [] str = "12.5" -> <<"1", "2", ".", "5">>
    [] str = "abc" -> <<"a", "b", "c">>
    [] str = "nan" -> <<"n", "a", "n">>
    [] str = "12.500" -> <<"1", "2", ".", "5", "0", "0">>
    [] str = "-5" -> <<"-", "5">>

\* what the user may have typed in the entries when a handler reads them
StartTexts == {Text("0"), Text("99"), Text("abc"), Text("nan")}
\* Start entries of the runs that look at the time range of the commands
RangeStartTexts == {Text("0"), Text("-5")}
EndTexts == {Text("")}
FpsTexts == {Text("10"), Text("0"), Text("abc")}
WidthTexts == {Text(""), Text("0"), Text("abc")}
Methods == {"palette", "single"}
\* answers of the file dialogs, "" when cancelled
OpenAnswers == {"", "video.mp4"}
SaveAnswers == {"", "out.gif"}
\* what ffprobe prints and what the Duration line of ffmpeg -i carries
ProbeOutputs == {Text("12.5"), Text("")}
FallbackGroups == {<<Text("0"), Text("0"), Text("12.5")>>}
\* exit statuses of the external programs
ExitCodes == {0, 1}
\* what subprocess.run does: it raises, or it returns with an exit status
Outcomes == {[raised |-> FALSE, status |-> c] : c \in ExitCodes}
            \cup {[raised |-> TRUE, status |-> 0]}

\* run_subprocess: the return code, 1 when subprocess.run raised
run_subprocess(o) == IF o.raised THEN 1 ELSE o.status

\* variant of rc_failed: only statuses above 1 count as failures
rc_failed_above_one(rc) == rc > 1

\* the test "rc != 0" after each run_subprocess
rc_failed(rc) == rc # 0

\* int(text) of Python, and IntVar.get() of Tk, on the modelled texts:
\* digits with an optional sign, anything else raises
IntOk(t0) ==
  LET t == Strip(t0)
      body == IF t # <<>> /\ t[1] \in {"+", "-"} THEN Tail(t) ELSE t
  IN body # <<>> /\ \A i \in 1..Len(body) : body[i] \in DigitChars

IntVal(t0) ==
  LET t == Strip(t0)
      body == IF t[1] \in {"+", "-"} THEN Tail(t) ELSE t
  IN IF t[1] = "-" THEN -DecVal(body) ELSE DecVal(body)

\* self.log_text.insert("end", line); the order of the lines is not kept
Insert(pane, line) == pane \cup {line}

LogLine(msg, by, req) == [msg |-> msg, by |-> by, req |-> req]

AfterLog(msg, req) == [fn |-> "log", arg |-> msg, req |-> req]

AfterCursor(c, req) == [fn |-> "cursor", arg |-> c, req |-> req]

\* what is installed, as <<ffmpeg and ffprobe found, Pillow importable>>:
\* everything, Pillow only, nothing
Environments == {<<TRUE, TRUE>>, <<FALSE, TRUE>>, <<FALSE, FALSE>>}

Init ==
  /\ \E env \in Environments : ffmpeg_ok = env[1] /\ pil_ok = env[2]
  /\ input_path = ""
  /\ duration = None
  /\ end_var = <<>>
  /\ output_var = ""
  /\ log_text = {LogLine("Ready.", UIThread, 0)}
  /\ box = ""
  /\ cursor = ""
  /\ afterq = <<>>
  /\ lock = 0
  /\ threads = <<>>
  /\ workdirs = {}
  /\ running = {}
  /\ ui = "idle"
  /\ nops = 0
  /\ t_in = <<>>
  /\ t_val = None
  /\ t_out = <<>>
  /\ t_pc = "off"
  /\ t_ref = None
  /\ t_bare = PyNone

\* ------------------------------------------------------------------------
\* Handlers of the UI thread
\* ------------------------------------------------------------------------
\* the tail of choose_file once get_video_duration has returned d
DurationKnown(d) ==
  /\ duration' = d
  /\ ui' = "idle"
  /\ running' = running \ {UIThread}
  /\ IF d # None
     THEN /\ log_text' = Insert(log_text, LogLine("Duration", UIThread, 0))
          /\ end_var' = IF Strip(end_var) = <<>> THEN FormatF3(d) ELSE end_var
     ELSE /\ log_text' = Insert(log_text, LogLine("Duration: unknown", UIThread, 0))
          /\ end_var' = end_var

\* choose_file up to the first external process of get_video_duration
choose_file(path) ==
  /\ ui = "idle"
  /\ nops < MaxOps
  /\ nops' = nops + 1
  /\ IF path = ""
     THEN UNCHANGED <<input_path, log_text, ui, running>>
     ELSE /\ input_path' = path
          /\ log_text' = Insert(log_text, LogLine("Selected", UIThread, 0))
          /\ ui' = "ffprobe"
          /\ running' = running \cup {UIThread}
  /\ UNCHANGED <<ffmpeg_ok, pil_ok, duration, end_var, output_var, box, cursor,
                 afterq, lock, threads, workdirs, timevars>>

\* the rest of get_video_duration once ffprobe has returned: its output read
\* as a float is the duration, or ffmpeg -i is run
ffprobe_read(rc, v) ==
  IF rc = 0 /\ v # None /\ v # ValueError
  THEN DurationKnown(v)
  ELSE /\ ui' = "ffmpeg -i"
       /\ UNCHANGED <<duration, running, log_text, end_var>>

\* ffprobe has returned with outcome o and output out
ffprobe_exit(o, out) ==
  /\ ui = "ffprobe"
  /\ ffprobe_read(run_subprocess(o),
                  IF Strip(out) = <<>> THEN None ELSE PyFloat(Strip(out)))
  /\ UNCHANGED <<ffmpeg_ok, pil_ok, input_path, output_var, box, cursor, afterq,
                 lock, threads, workdirs, nops, timevars>>

\* float(h) * 3600.0 + float(m_) * 60.0 + float(s) on the floats f of the
\* three groups
GroupSeconds(f) == FAdd(FAdd(FMulInt(f[1], 3600), FMulInt(f[2], 60)), f[3])

\* ffmpeg -i has returned: g is the match of the Duration pattern, <<>> if none
ffmpeg_i_exit(g) ==
  /\ ui = "ffmpeg -i"
  /\ IF g = <<>> THEN DurationKnown(None)
     ELSE DurationKnown(GroupSeconds([i \in 1..3 |-> PyFloat(g[i])]))
  /\ UNCHANGED <<ffmpeg_ok, pil_ok, input_path, output_var, box, cursor, afterq,
                 lock, threads, workdirs, nops, timevars>>

choose_output(path) ==
  /\ ui = "idle"
  /\ nops < MaxOps
  /\ nops' = nops + 1
  /\ IF path # ""
     THEN /\ output_var' = path
          /\ log_text' = Insert(log_text, LogLine("Output set", UIThread, 0))
     ELSE UNCHANGED <<output_var, log_text>>
  /\ UNCHANGED <<ffmpeg_ok, pil_ok, input_path, duration, end_var, box, cursor,
                 afterq, lock, threads, workdirs, running, ui, timevars>>

\* the user edits the End entry (here: clears it)
type_end(t) ==
  /\ ui = "idle"
  /\ t # end_var
  /\ end_var' = t
  /\ UNCHANGED <<ffmpeg_ok, pil_ok, input_path, duration, output_var, log_text, box,
                 cursor, afterq, lock, threads, workdirs, running, ui, nops,
                 timevars>>

\* parse_time of the texts the entries can hold, tabulated
EntryTexts == StartTexts \cup RangeStartTexts \cup EndTexts \cup {Text("12.500")}

EntryTimes == [t \in EntryTexts |-> parse_time(t)]

\* format_time_seconds of the times an export can carry, tabulated
ClockTexts_of ==
  [v \in {EntryTimes[t] : t \in EntryTexts} \ {None, NaN}
     |-> format_time_seconds(v)]

\* the end time on_export works with: the End entry, else the duration
export_end(end) == IF end = None THEN duration ELSE end

fps_valid(fv) == IntOk(fv) /\ 1 <= IntVal(fv) /\ IntVal(fv) <= 60

width_valid(wv) == Strip(wv) = <<>> \/ (IntOk(wv) /\ IntVal(wv) > 0)

\* where on_export returns, start and end being the parsed entries: the title
\* of the message box it shows, "cancelled" when the save dialog is
\* cancelled, "ok" when it starts a thread
export_check(start, end, fv, wv, save) ==
  IF ~ffmpeg_ok THEN "ffmpeg missing"
  ELSE IF input_path = "" THEN "No file"
  ELSE IF start = None THEN "Invalid start"
  ELSE IF export_end(end) = None THEN "Invalid end"
  ELSE IF FLe(export_end(end), start) THEN "Invalid range"
  ELSE IF ~fps_valid(fv) THEN "Invalid FPS"
  ELSE IF ~width_valid(wv) THEN "Invalid width"
  ELSE IF output_var = "" /\ save = "" THEN "cancelled"
  ELSE "ok"

NewThread(start, end, fv, wv, method, out) ==
  [pc |-> "start", input_path |-> input_path, start |-> start,
   end |-> export_end(end), fps |-> IntVal(fv),
   width |-> IF Strip(wv) = <<>> THEN 0 ELSE IntVal(wv),
   method |-> method, out_path |-> out, workdir |-> Len(threads) + 1,
   ss |-> <<>>, to |-> <<>>, calls |-> <<>>, accepted |-> FALSE, box |-> ""]

\* on_export from the parsed entries on, up to its return or to the message
\* box it blocks in; stage is where it returns
export_from(stage, start, end, fv, wv, method, out) ==
  /\ end_var' = IF /\ stage \notin {"ffmpeg missing", "No file", "Invalid start"}
                   /\ end = None
                   /\ duration # None
                THEN FormatF3(duration) ELSE end_var
  /\ IF stage \notin {"cancelled", "ok"}
     THEN box' = stage /\ ui' = "box"
     ELSE UNCHANGED <<box, ui>>
  /\ IF stage = "ok"
     THEN /\ output_var' = out
          /\ workdirs' = workdirs \cup {Len(threads) + 1}
          /\ log_text' = Insert(log_text,
                                LogLine("Working directory", UIThread, Len(threads) + 1))
          /\ threads' = Append(threads, NewThread(start, end, fv, wv, method, out))
     ELSE UNCHANGED <<output_var, workdirs, log_text, threads>>

\* the parsed entries: start = parse_time(self.start_var.get()),
\* end = parse_time(self.end_var.get())
export_parsed(start, end, fv, wv, method, save) ==
  export_from(export_check(start, end, fv, wv, save), start, end, fv, wv, method,
              IF output_var = "" THEN save ELSE output_var)

\* the Export button, the entries holding sv, end_var, fv and wv
on_export(sv, fv, wv, method, save) ==
  /\ ui = "idle"
  /\ nops < MaxOps
  /\ nops' = nops + 1
  /\ export_parsed(EntryTimes[sv], EntryTimes[end_var], fv, wv, method, save)
  /\ UNCHANGED <<ffmpeg_ok, pil_ok, input_path, duration, cursor, afterq, lock, running,
                 timevars>>

\* where on_preview returns, t being the parsed Start entry: the title of the
\* message box it shows, "ok" when it goes on to extract the frame
preview_check(t) ==
  IF ~pil_ok THEN "Pillow not available"
  ELSE IF input_path = "" THEN "No file"
  ELSE IF t = None THEN "Invalid start"
  ELSE "ok"

\* on_preview from the parsed Start entry on, up to the message box it blocks
\* in or to the ffmpeg process of extract_frame_to_file; format_time_seconds
\* raising ends the handler
preview_from(stage, t) ==
  IF stage # "ok"
  THEN /\ box' = stage
       /\ ui' = "preview box"
       /\ UNCHANGED <<log_text, running>>
  ELSE /\ log_text' = Insert(log_text, LogLine("Extracting frame", UIThread, 0))
       /\ box' = box
       /\ IF format_raises(t)
          THEN UNCHANGED <<ui, running>>
          ELSE ui' = "preview" /\ running' = running \cup {UIThread}

\* the Preview button, the Start entry holding sv
on_preview(sv) ==
  /\ ui = "idle"
  /\ nops < MaxOps
  /\ nops' = nops + 1
  /\ preview_from(preview_check(EntryTimes[sv]), EntryTimes[sv])
  /\ UNCHANGED <<ffmpeg_ok, pil_ok, input_path, duration, end_var, output_var,
                 cursor, afterq, lock, threads, workdirs, timevars>>

\* variant of preview_exit: the handler goes on without waiting for ffmpeg
preview_exit_detached(o, shown) ==
  /\ ui = "preview"
  /\ ui' = "idle"
  /\ log_text' = Insert(log_text, LogLine("Preview displayed.", UIThread, 0))
  /\ UNCHANGED <<ffmpeg_ok, pil_ok, input_path, duration, end_var, output_var,
                 box, cursor, afterq, lock, threads, workdirs, running, nops,
                 timevars>>

\* the ffmpeg process of extract_frame_to_file ends as o; shown tells whether
\* the extracted frame could be opened and drawn
preview_exit(o, shown) ==
  /\ ui = "preview"
  /\ ui' = "idle"
  /\ running' = running \ {UIThread}
  /\ log_text' = Insert(log_text,
                        LogLine(IF rc_failed(run_subprocess(o)) THEN "Preview failed"
                                ELSE IF shown THEN "Preview displayed."
                                ELSE "Preview error", UIThread, 0))
  /\ UNCHANGED <<ffmpeg_ok, pil_ok, input_path, duration, end_var, output_var,
                 box, cursor, afterq, lock, threads, workdirs, nops, timevars>>

\* the user closes the message box and the handler returns
dismiss_box ==
  /\ ui \in {"box", "preview box"}
  /\ ui' = "idle"
  /\ box' = ""
  /\ UNCHANGED <<ffmpeg_ok, pil_ok, input_path, duration, end_var, output_var, log_text,
                 cursor, afterq, lock, threads, workdirs, running, nops, timevars>>

\* what the callbacks of the queue q insert in the log pane
RECURSIVE AfterLines(_)
AfterLines(q) ==
  IF q = <<>> THEN {}
  ELSE (IF Head(q).fn = "log" THEN {LogLine(Head(q).arg, UIThread, Head(q).req)}
        ELSE {}) \cup AfterLines(Tail(q))

\* the cursor after the callbacks of the queue q, c before them
RECURSIVE AfterCursorOf(_, _)
AfterCursorOf(q, c) ==
  IF q = <<>> THEN c
  ELSE AfterCursorOf(Tail(q), IF Head(q).fn = "cursor" THEN Head(q).arg ELSE c)

\* the Tk main loop runs the root.after(0, ...) callbacks that are due,
\* oldest first, on the UI thread
run_after ==
  /\ ui = "idle"
  /\ afterq # <<>>
  /\ afterq' = <<>>
  /\ log_text' = log_text \cup AfterLines(afterq)
  /\ cursor' = AfterCursorOf(afterq, cursor)
  /\ UNCHANGED <<ffmpeg_ok, pil_ok, input_path, duration, end_var, output_var, box,
                 lock, threads, workdirs, running, ui, nops, timevars>>

\* ------------------------------------------------------------------------
\* The export thread: _export_worker, run_ffmpeg_palette, run_ffmpeg_single
\* ------------------------------------------------------------------------
\* variant of acquire: the lock is handed out whether or not it is held
acquire_always(lk) == TRUE

\* self._lock.acquire(blocking=False): TRUE when the lock is obtained
acquire(lk) == lk = 0

ThreadIds == 1..Len(threads)

\* a thread that has returned: its arguments and locals are gone
Ended(t) ==
  [pc |-> "done", input_path |-> "", start |-> None, end |-> None, fps |-> 0,
   width |-> 0, method |-> "", out_path |-> "", workdir |-> threads[t].workdir,
   ss |-> <<>>, to |-> <<>>, calls |-> <<>>, accepted |-> threads[t].accepted,
   box |-> ""]

\* variant of worker_rejected: the return sits inside the try block, so the
\* finally block releases the lock of the running worker
worker_rejected_releasing(t) ==
  /\ log_text' = Insert(log_text, LogLine("Another export is in progress", t, t))
  /\ threads' = [threads EXCEPT ![t] = Ended(t)]
  /\ lock' = 0
  /\ UNCHANGED <<afterq, running>>

\* the lock is taken: the worker logs the rejection and returns, ahead of
\* the try block
worker_rejected(t) ==
  /\ log_text' = Insert(log_text, LogLine("Another export is in progress", t, t))
  /\ threads' = [threads EXCEPT ![t] = Ended(t)]
  /\ UNCHANGED <<lock, afterq, running>>

\* from the start of _export_worker to its first blocking call: the worker
\* is rejected, or it takes the lock and launches its first ffmpeg, or the
\* formatting of its time range raises and it goes to the finally block
worker_start(t) ==
  /\ t \in ThreadIds
  /\ threads[t].pc = "start"
  /\ IF ~acquire(lock)
     THEN worker_rejected(t)
     ELSE /\ lock' = t
          /\ log_text' = Insert(log_text, LogLine("Starting export", t, t))
          /\ IF format_raises(threads[t].start) \/ format_raises(threads[t].end)
             THEN /\ afterq' = Append(afterq, AfterCursor("watch", t))
                  /\ threads' = [threads EXCEPT ![t].pc = "finally",
                                                ![t].accepted = TRUE]
                  /\ running' = running
             ELSE /\ afterq' = afterq \o
                       <<AfterCursor("watch", t),
                         AfterLog(IF threads[t].method = "palette"
                                  THEN "Running palette generation"
                                  ELSE "Running single-step command", t)>>
                  /\ threads' = [threads EXCEPT
                                   ![t].pc = "proc1",
                                   ![t].accepted = TRUE,
                                   ![t].ss = ClockTexts_of[threads[t].start],
                                   ![t].to = ClockTexts_of[threads[t].end]]
                  /\ running' = running \cup {t}
  /\ UNCHANGED <<ffmpeg_ok, pil_ok, input_path, duration, end_var, output_var, box,
                 cursor, workdirs, ui, nops, timevars>>

\* the ffmpeg process of thread t ends as o and the thread runs on to its
\* next blocking call: the second ffmpeg, or the result message box
proc_exit(t, o) ==
  /\ t \in ThreadIds
  /\ threads[t].pc \in {"proc1", "proc2"}
  /\ LET cmd == IF threads[t].pc = "proc2" THEN "paletteuse"
                ELSE IF threads[t].method = "palette" THEN "palettegen"
                ELSE "single"
         rc == run_subprocess(o)
         calls == Append(threads[t].calls,
                         [cmd |-> cmd, raised |-> o.raised, status |-> o.status])
     IN IF threads[t].pc = "proc1" /\ threads[t].method = "palette" /\ ~rc_failed(rc)
        THEN /\ afterq' = Append(afterq, AfterLog("Running palette use", t))
             /\ threads' = [threads EXCEPT ![t].pc = "proc2", ![t].calls = calls]
             /\ running' = running
        ELSE /\ running' = running \ {t}
             /\ IF ~rc_failed(rc)
                THEN /\ afterq' = afterq \o <<AfterLog("Success", t),
                                              AfterLog("Output saved", t)>>
                     /\ threads' = [threads EXCEPT ![t].pc = "dialog",
                                                   ![t].calls = calls,
                                                   ![t].box = "Export complete"]
                ELSE /\ afterq' = Append(afterq, AfterLog("Failed", t))
                     /\ threads' = [threads EXCEPT ![t].pc = "dialog",
                                                   ![t].calls = calls,
                                                   ![t].box = "Export failed"]
  /\ UNCHANGED <<ffmpeg_ok, pil_ok, input_path, duration, end_var, output_var, log_text,
                 box, cursor, lock, workdirs, ui, nops, timevars>>

\* variant of worker_finally: the lock is released after a success only
worker_finally_keeps_lock(t) ==
  /\ t \in ThreadIds
  /\ threads[t].pc \in {"dialog", "finally"}
  /\ workdirs' = workdirs \ {threads[t].workdir}
  /\ afterq' = afterq \o <<AfterLog("Cleaned temporary files.", t),
                           AfterCursor("", t)>>
  /\ lock' = IF threads[t].box = "Export complete" THEN 0 ELSE lock
  /\ threads' = [threads EXCEPT ![t] = Ended(t)]
  /\ UNCHANGED <<ffmpeg_ok, pil_ok, input_path, duration, end_var, output_var, log_text,
                 box, cursor, running, ui, nops, timevars>>

\* the finally block, entered when the message box is dismissed or when the
\* try block raised: remove the work directory, reset the cursor, release
worker_finally(t) ==
  /\ t \in ThreadIds
  /\ threads[t].pc \in {"dialog", "finally"}
  /\ workdirs' = workdirs \ {threads[t].workdir}
  /\ afterq' = afterq \o <<AfterLog("Cleaned temporary files.", t),
                           AfterCursor("", t)>>
  /\ lock' = 0
  /\ threads' = [threads EXCEPT ![t] = Ended(t)]
  /\ UNCHANGED <<ffmpeg_ok, pil_ok, input_path, duration, end_var, output_var, log_text,
                 box, cursor, running, ui, nops, timevars>>

Next ==
  \/ \E path \in OpenAnswers : choose_file(path)
  \/ \E o \in Outcomes, out \in ProbeOutputs : ffprobe_exit(o, out)
  \/ \E g \in FallbackGroups \cup {<<>>} : ffmpeg_i_exit(g)
  \/ \E path \in SaveAnswers : choose_output(path)
  \/ \E t \in EndTexts : type_end(t)
  \/ \E sv \in StartTexts, fv \in FpsTexts, wv \in WidthTexts, m \in Methods,
        save \in SaveAnswers : on_export(sv, fv, wv, m, save)
  \/ \E sv \in StartTexts : on_preview(sv)
  \/ \E o \in Outcomes, shown \in BOOLEAN : preview_exit(o, shown)
  \/ dismiss_box
  \/ run_after
  \/ \E t \in 1..MaxOps : worker_start(t)
  \/ \E t \in 1..MaxOps, o \in Outcomes : proc_exit(t, o)
  \/ \E t \in 1..MaxOps : worker_finally(t)

Spec == Init /\ [][Next]_vars

\* every started thread keeps running, every ffmpeg process ends and every
\* result message box is dismissed
FairSpec ==
  /\ Spec
  /\ WF_vars(\E t \in 1..MaxOps : worker_start(t))
  /\ WF_vars(\E t \in 1..MaxOps, o \in Outcomes : proc_exit(t, o))
  /\ WF_vars(\E t \in 1..MaxOps : worker_finally(t))

\* ------------------------------------------------------------------------
\* The time helpers on their own
\* ------------------------------------------------------------------------
TimeMinutes == {0, 1, 59}
TimeSeconds == {0, 1, 30, 59}
TimeMillis == {0, 1, 100, 500, 999}

\* the text HH:MM:SS.mmm
TimeText(h, m, sec, ms) ==
  ZeroPad(h, 2) \o <<":">> \o ZeroPad(m, 2) \o <<":">> \o ZeroPad(sec, 2)
  \o <<".">> \o ZeroPad(ms, 3)

ClockTexts ==
  {TimeText(h, m, sec, ms) : h \in 0..MaxHour, m \in TimeMinutes,
                             sec \in TimeSeconds, ms \in TimeMillis}

TimeInit ==
  /\ ffmpeg_ok = TRUE
  /\ pil_ok = TRUE
  /\ input_path = ""
  /\ duration = None
  /\ end_var = <<>>
  /\ output_var = ""
  /\ log_text = {LogLine("Ready.", UIThread, 0)}
  /\ box = ""
  /\ cursor = ""
  /\ afterq = <<>>
  /\ lock = 0
  /\ threads = <<>>
  /\ workdirs = {}
  /\ running = {}
  /\ ui = "idle"
  /\ nops = 0
  /\ t_in \in ClockTexts
  /\ t_val = None
  /\ t_out = <<>>
  /\ t_pc = "in"
  /\ t_ref = None
  /\ t_bare = PyNone

time_parse ==
  /\ t_pc = "in"
  /\ t_val' = parse_time(t_in)
  /\ t_pc' = "parsed"
  /\ UNCHANGED <<t_in, t_out, t_ref, t_bare, guivars>>

time_format ==
  /\ t_pc = "parsed"
  /\ ~format_raises(t_val)
  /\ t_out' = format_time_seconds(t_val)
  /\ t_pc' = "formatted"
  /\ UNCHANGED <<t_in, t_val, t_ref, t_bare, guivars>>

TimeNext == time_parse \/ time_format

TimeSpec == TimeInit /\ [][TimeNext]_vars

\* ------------------------------------------------------------------------
\* Exports of a probed file with valid frame rate, width and output path,
\* the Start entry ranging over RangeStartTexts
\* ------------------------------------------------------------------------
RangeNext ==
  \/ choose_file("video.mp4")
  \/ \E o \in Outcomes, out \in ProbeOutputs : ffprobe_exit(o, out)
  \/ \E g \in FallbackGroups \cup {<<>>} : ffmpeg_i_exit(g)
  \/ \E sv \in RangeStartTexts, m \in Methods :
       on_export(sv, Text("10"), Text(""), m, "out.gif")
  \/ dismiss_box
  \/ run_after
  \/ \E t \in 1..MaxOps : worker_start(t)
  \/ \E t \in 1..MaxOps, o \in Outcomes : proc_exit(t, o)
  \/ \E t \in 1..MaxOps : worker_finally(t)

RangeSpec == Init /\ [][RangeNext]_vars

\* ------------------------------------------------------------------------
\* parse_time on its own: well-formed and malformed texts, and pairs of a
\* colon-separated text and the bare number of seconds of the same duration
\* ------------------------------------------------------------------------
FieldTexts == {<<"0">>, <<"1">>, <<"3", "0">>, <<"x">>, <<>>}

\* the fields f joined with colons
RECURSIVE Join(_)
Join(f) ==
  IF Len(f) = 1 THEN f[1] ELSE f[1] \o <<":">> \o Join(Tail(f))

ColonTexts ==
  {Join(f) : f \in UNION {[1..n -> FieldTexts] : n \in 1..MaxFields}}

EquivMillis == {0, 29, 500}

\* ".mmm", nothing for a whole number of seconds
FractionText(ms) == IF ms = 0 THEN <<>> ELSE <<".">> \o ZeroPad(ms, 3)

\* the text h:mm:ss(.mmm) and the decimal text of 3600*h + 60*m + sec(.mmm)
EquivPair(h, m, sec, ms) ==
  <<DecText(h) \o <<":">> \o ZeroPad(m, 2) \o <<":">> \o ZeroPad(sec, 2)
      \o FractionText(ms),
    DecText(3600 * h + 60 * m + sec) \o FractionText(ms)>>

ParsePairs ==
  {EquivPair(h, m, sec, ms) : h \in 0..MaxHour, m \in TimeMinutes,
                              sec \in TimeSeconds, ms \in EquivMillis}
  \cup {<<t, PyNone>> : t \in ColonTexts \cup {PyNone, <<" ">>, <<" ", " ">>}}

ParseInit ==
  /\ ffmpeg_ok = TRUE
  /\ pil_ok = TRUE
  /\ input_path = ""
  /\ duration = None
  /\ end_var = <<>>
  /\ output_var = ""
  /\ log_text = {LogLine("Ready.", UIThread, 0)}
  /\ box = ""
  /\ cursor = ""
  /\ afterq = <<>>
  /\ lock = 0
  /\ threads = <<>>
  /\ workdirs = {}
  /\ running = {}
  /\ ui = "idle"
  /\ nops = 0
  /\ \E pair \in ParsePairs : t_in = pair[1] /\ t_bare = pair[2]
  /\ t_val = None
  /\ t_out = <<>>
  /\ t_pc = "in"
  /\ t_ref = None

\* parse_time applied to the bare-seconds text
time_parse_bare ==
  /\ t_pc = "parsed"
  /\ t_bare # PyNone
  /\ t_ref' = parse_time(t_bare)
  /\ t_pc' = "bare"
  /\ UNCHANGED <<t_in, t_val, t_out, t_bare, guivars>>

ParseNext == time_parse \/ time_parse_bare

ParseSpec == ParseInit /\ [][ParseNext]_vars

\* ------------------------------------------------------------------------
\* Properties
\* ------------------------------------------------------------------------
\* thread t is between its successful acquire and its release
InExport(t) == threads[t].pc \in {"proc1", "proc2", "dialog", "finally"}

\* the line msg about thread t is in the log pane or on its way to it
Posted(msg, t) ==
  \/ LogLine(msg, UIThread, t) \in log_text
  \/ \E i \in 1..Len(afterq) : afterq[i] = AfterLog(msg, t)

\* x > y on floats
FGt(x, y) == x.k # "nan" /\ y.k # "nan" /\ ~FLe(x, y)

\* C1: in every interleaving of export requests at most one worker is
\* between its successful lock acquisition and its release, so at most one
\* export thread is running ffmpeg
C1_OneExportAtATime ==
  /\ Cardinality({t \in ThreadIds : InExport(t)}) <= 1
  /\ Cardinality(running \ {UIThread}) <= 1

\* a second request has been made, and rejected, while an export is in flight
C1_Witness ==
  \E t1, t2 \in ThreadIds :
    /\ threads[t1].pc \in {"proc1", "proc2"}
    /\ threads[t2].pc = "done"
    /\ ~threads[t2].accepted

\* C2: a worker that finds the lock held does not wait for it: its next step
\* is always possible, ends it, inserts the line "Another export is in
\* progress", and leaves the lock and the external processes as they are;
\* a worker that has ended never does anything again
C2_RejectedNotQueued ==
  /\ [](\A t \in ThreadIds :
          threads[t].pc = "start" /\ lock # 0 => ENABLED worker_start(t))
  /\ [][\A t \in ThreadIds :
          /\ (threads[t].pc = "start" /\ lock # 0 /\ threads'[t].pc # "start")
             => /\ threads'[t].pc = "done"
                /\ ~threads'[t].accepted
                /\ threads'[t].calls = <<>>
                /\ LogLine("Another export is in progress", t, t) \in log_text'
                /\ lock' = lock
                /\ running' = running
          /\ threads[t].pc = "done"
             => threads'[t] = threads[t] /\ t \notin running']_vars

\* a worker has been rejected and the worker that held the lock still holds it
C2_Witness ==
  \E t1, t2 \in ThreadIds :
    /\ lock = t1
    /\ InExport(t1)
    /\ threads[t2].pc = "done"
    /\ ~threads[t2].accepted
    /\ LogLine("Another export is in progress", t2, t2) \in log_text

\* C3: every change the export worker makes to the UI is made by the UI
\* thread: every line of the log pane was inserted by the UI thread and no
\* message box is shown by a worker thread
C3_UiOnlyFromUiThread ==
  /\ \A l \in log_text : l.by = UIThread
  /\ \A t \in ThreadIds : threads[t].box = ""

\* C4: once the worker of a request has ended, the work directory created
\* for that request is gone
C4_WorkdirRemoved ==
  \A t \in ThreadIds : threads[t].pc = "done" => threads[t].workdir \notin workdirs

\* C5: an accepted export with method palette calls palette generation, then
\* the encode, and the encode only after palette generation returned 0; an
\* accepted export with another method has made exactly one call when it
\* leaves the try block
C5_CallSequence ==
  \A t \in ThreadIds :
    LET th == threads[t]
        left == th.pc \in {"dialog", "finally"}
    IN InExport(t) =>
         IF th.method = "palette"
         THEN /\ Len(th.calls) <= 2
              /\ Len(th.calls) >= 1 => th.calls[1].cmd = "palettegen"
              /\ Len(th.calls) = 2 =>
                   /\ th.calls[2].cmd = "paletteuse"
                   /\ ~th.calls[1].raised /\ th.calls[1].status = 0
         ELSE /\ Len(th.calls) <= 1
              /\ left => Len(th.calls) = 1

\* C6: an export that has left the encoding step reports success (the
\* "Export complete" box and the Success line) exactly when it ran external
\* processes and each of them returned status 0 without raising, and reports
\* failure (the "Export failed" box and the Failed line) exactly when one of
\* them returned another status or raised; before that step ends nothing is
\* reported, and no export reports both
C6_SuccessIffAllZero ==
  \A t \in ThreadIds :
    LET th == threads[t]
        allzero == /\ th.calls # <<>>
                   /\ \A i \in 1..Len(th.calls) :
                        ~th.calls[i].raised /\ th.calls[i].status = 0
        somebad == \E i \in 1..Len(th.calls) :
                     th.calls[i].raised \/ th.calls[i].status # 0
    IN /\ ~(Posted("Success", t) /\ Posted("Failed", t))
       /\ th.pc \in {"dialog", "finally"} =>
            /\ (th.box = "Export complete") = allzero
            /\ Posted("Success", t) = allzero
            /\ (th.box = "Export failed") = somebad
            /\ Posted("Failed", t) = somebad
       /\ th.pc \in {"start", "proc1", "proc2"} =>
            /\ th.box = ""
            /\ ~Posted("Success", t)
            /\ ~Posted("Failed", t)

\* both reports have been made: one export succeeded and a later one shows
\* its failure box
C6_Witness ==
  \E t1, t2 \in ThreadIds :
    /\ threads[t1].pc = "dialog"
    /\ threads[t1].box = "Export failed"
    /\ Posted("Failed", t1)
    /\ Posted("Success", t2)

\* C7: no external command is run twice in one export; whenever the lock is
\* held it is released later, whatever the outcome of the export; and a
\* worker that starts while the lock is free is accepted
C7_NoRetryLockReleased ==
  /\ [](\A t \in ThreadIds :
          \A i, j \in 1..Len(threads[t].calls) :
            threads[t].calls[i].cmd = threads[t].calls[j].cmd => i = j)
  /\ ((lock # 0) ~> (lock = 0))
  /\ [][\A t \in ThreadIds :
          (threads[t].pc = "start" /\ lock = 0 /\ threads'[t].pc # "start")
          => threads'[t].accepted /\ lock' = t]_vars

\* an export has been accepted after an earlier accepted export ended
C7_Witness ==
  \E t1, t2 \in ThreadIds :
    /\ t1 # t2
    /\ threads[t1].pc = "done"
    /\ threads[t1].accepted
    /\ lock = t2

\* C8: a work directory and a thread exist only for requests that met every
\* precondition: ffmpeg found, a file selected, start parsed, end > start,
\* frame rate in 1..60, width absent (0) or positive
C8_OnlyValidRequestsStart ==
  /\ \A t \in ThreadIds :
       threads[t].pc # "done" =>
         /\ ffmpeg_ok
         /\ threads[t].input_path # ""
         /\ threads[t].start # None
         /\ FGt(threads[t].end, threads[t].start)
         /\ threads[t].fps \in 1..60
         /\ threads[t].width >= 0
  /\ workdirs \subseteq {threads[t].workdir : t \in ThreadIds}

\* C9: every failure of an export request shows as a message box and as a
\* line of the log pane
C9_DialogAndLogLine ==
  /\ ui = "box" => \E l \in log_text : l.msg = box
  /\ \A t \in ThreadIds : threads[t].box = "Export failed" => Posted("Failed", t)

\* C10: formatting the parsed value of a text HH:MM:SS.mmm gives the text back
C10_RoundTrip == t_pc = "formatted" => t_out = t_in

\* a number as the claims mean it: digits with at most one decimal point
NumericText(tok) ==
  /\ tok # <<>>
  /\ \A i \in 1..Len(tok) : tok[i] \in DigitChars \cup {"."}
  /\ Cardinality({i \in 1..Len(tok) : tok[i] = "."}) <= 1
  /\ \E i \in 1..Len(tok) : tok[i] \in DigitChars

\* a bare number of seconds, or minute:second, or hour:minute:second with
\* numeric fields
WellFormedTime(t) ==
  /\ t # PyNone
  /\ LET fields == Split(Strip(t), ":")
     IN /\ Len(fields) \in 1..3
        /\ \A i \in 1..Len(fields) : NumericText(fields[i])

\* C11: parse_time returns None for every input that is None, blank, or
\* neither a bare number of seconds nor a minute:second or
\* hour:minute:second text with numeric fields
C11_MalformedRejected ==
  (t_pc \in {"parsed", "bare"} /\ ~WellFormedTime(t_in)) => t_val = None

C13_OneProcessAtATime == Cardinality(running) <= 1

\* C13 per thread: the UI thread runs a process only while choose_file or
\* on_preview waits for it, an export thread only while it holds the lock
\* and waits in run_ffmpeg_*; so at most two processes run at once, and of
\* two one was started by the UI thread
C13_OneProcessPerSide ==
  /\ UIThread \in running <=> ui \in {"ffprobe", "ffmpeg -i", "preview"}
  /\ \A t \in ThreadIds :
       t \in running <=> (threads[t].pc \in {"proc1", "proc2"} /\ lock = t)
  /\ running \subseteq {UIThread} \cup ThreadIds
  /\ Cardinality(running) <= 2
  /\ Cardinality(running) = 2 => UIThread \in running

\* the preview's ffmpeg and an export's ffmpeg are running at the same time
C13_Witness ==
  /\ ui = "preview"
  /\ \E t \in ThreadIds : running = {UIThread, t}

\* the text is digits only
AllDigits(x) == \A i \in 1..Len(x) : x[i] \in DigitChars

\* HH:MM:SS.mmm: hours of two or more digits, minutes and seconds 00..59,
\* three digits of milliseconds
WellFormedClock(x) ==
  LET f == Split(x, ":")
  IN /\ Len(f) = 3
     /\ Len(f[1]) >= 2 /\ AllDigits(f[1])
     /\ Len(f[2]) = 2 /\ AllDigits(f[2]) /\ DecVal(f[2]) <= 59
     /\ Len(f[3]) = 6 /\ f[3][3] = "."
     /\ AllDigits(SubSeq(f[3], 1, 2)) /\ DecVal(SubSeq(f[3], 1, 2)) <= 59
     /\ AllDigits(SubSeq(f[3], 4, 6))

\* the time a well-formed HH:MM:SS.mmm text denotes, in milliseconds
ClockMillis(x) ==
  LET f == Split(x, ":")
  IN ((DecVal(f[1]) * 60 + DecVal(f[2])) * 60 + DecVal(SubSeq(f[3], 1, 2))) * 1000
     + DecVal(SubSeq(f[3], 4, 6))

\* C14: while an accepted export runs ffmpeg, the -ss and -to texts of its
\* commands are well-formed HH:MM:SS.mmm and -to is strictly later than -ss
C14_WellFormedRange ==
  \A t \in ThreadIds :
    threads[t].pc \in {"proc1", "proc2"} =>
      /\ WellFormedClock(threads[t].ss)
      /\ WellFormedClock(threads[t].to)
      /\ ClockMillis(threads[t].to) > ClockMillis(threads[t].ss)

====
